---- MODULE Spec2Model ----
(***************************************************************************)
(* Model of pilot/pkg/security/authz/builder/builder.go: the Builder that  *)
(* turns the authorization policies selected for a workload into Envoy     *)
(* RBAC filters (New, BuildHTTP, BuildTCP, build, createHTTPFilter,        *)
(* createTCPFilter).                                                       *)
(*                                                                         *)
(* Go strings are sequences of one-character strings, so that fmt.Sprintf  *)
(* is a concatenation whose injectivity can be checked.  Go's nil is the   *)
(* record Nil.  A map is a function whose domain is its key set.           *)
(***************************************************************************)
EXTENDS Integers, Sequences, FiniteSets, TLC

VARIABLES
    selDeny,    \* deny list returned by ListAuthorizationPolicies (builder.go:49)
    selAllow,   \* allow list returned by ListAuthorizationPolicies (builder.go:49)
    selBundle,  \* trustDomainBundle argument of New (builder.go:47)
    builder,    \* the *Builder returned by New: Pending before the call, then Nil or a Builder
    inPolicies, \* argument list of a direct call of build (builder.go:92)
    inBundle,   \* tdBundle argument of a direct call of build
    frame,      \* per caller: the locals of its running BuildHTTP/BuildTCP/build call
    ret,        \* per caller: the kind and the value of its last completed call
    out         \* result of the direct call of build and of the filter made from it

vars == <<selDeny, selAllow, selBundle, builder, inPolicies, inBundle, frame, ret, out>>

----------------------------------------------------------------------------
\* Bounds of the model.

\* policies in a list passed directly to build
MaxPolicies == 2
\* rules in a policy passed directly to build
MaxRules == 2
\* rules in a policy selected for a Builder
MaxSelRules == 1

----------------------------------------------------------------------------
\* Values.

Nil == [nil |-> TRUE]
Pending == [pending |-> TRUE]

\* the two goroutines that may share one Builder
Callers == {1, 2}

\* the namespaces and names policies are drawn from: "a", "a]-policy[b", "c", "b]-policy[c"
Namespaces == { <<"a">>, <<"a", "]", "-", "p", "o", "l", "i", "c", "y", "[", "b">> }
Names == { <<"c">>, <<"b", "]", "-", "p", "o", "l", "i", "c", "y", "[", "c">> }
\* the one policy identity in the repository a Builder is made from, so that
\* a selected list holds at most one policy
SelNamespaces == { <<"a">> }
SelNames == { <<"c">> }

Bundles == {"td1", "td2"}
\* the bundle a Builder is made with
SelBundles == {"td2"}

\* Rule specifications, told apart by what the authz model makes of them.
RuleSpecs == {[kind |-> k] : k \in {"bad", "err", "http", "ok"}}
Rules == RuleSpecs \cup {Nil}
\* the rules of the policies a Builder is made from: one that generates a
\* policy for HTTP only and one that generates a policy for both protocols
SelRules == {[kind |-> k] : k \in {"http", "ok"}}

SeqsUpTo(S, n) == UNION {[1..k -> S] : k \in 0..n}

PolicyConfigs(nss, names, rules, maxRules) ==
    {[Namespace |-> ns, Name |-> nm, Rules |-> rs] :
        ns \in nss, nm \in names, rs \in SeqsUpTo(rules, maxRules)}

\* (namespace, name) identifies a policy within one repository snapshot
DistinctIdentities(ps) ==
    \A x, y \in DOMAIN ps :
        x # y => <<ps[x].Namespace, ps[x].Name>> # <<ps[y].Namespace, ps[y].Name>>

\* what policies.ListAuthorizationPolicies can return as one list
PolicyLists(nss, names, rules, maxPolicies, maxRules) ==
    {ps \in SeqsUpTo(PolicyConfigs(nss, names, rules, maxRules), maxPolicies) :
        DistinctIdentities(ps)}

\* the lists selected from the repository a Builder is made from
SelectedLists ==
    PolicyLists(SelNamespaces, SelNames, SelRules,
                Cardinality(SelNamespaces \X SelNames), MaxSelRules)

----------------------------------------------------------------------------
\* Collaborators of the package istio.io/istio/pilot/pkg/security/authz/model
\* and of networking/util.

RBACHTTPFilterName == "envoy.filters.http.rbac"
RBACTCPFilterName == "envoy.filters.network.rbac"
RBACTCPFilterStatPrefix == "tcp."

\* authzmodel.New(rule): (m, err)
authzmodelNew(rule) ==
    IF rule.kind = "bad"
        THEN [m |-> Nil, err |-> [error |-> "invalid rule"]]
        ELSE [m |-> [rule |-> rule, td |-> "unmigrated"], err |-> Nil]

\* m.MigrateTrustDomain(tdBundle): changes m in place
MigrateTrustDomain(m, tdBundle) == [m EXCEPT !.td = tdBundle]

\* m.Generate(forTCP, forDeny): (generated, err)
Generate(m, forTCP, forDeny) ==
    IF m.rule.kind = "err"
        THEN [generated |-> Nil, err |-> [error |-> "generation failed"]]
        ELSE IF m.rule.kind = "http" /\ forTCP
            THEN [generated |-> Nil, err |-> Nil]
            ELSE [generated |-> [rule |-> m.rule, td |-> m.td, forTCP |-> forTCP, forDeny |-> forDeny],
                  err |-> Nil]

\* util.MessageToAny(msg): the message wrapped with the URL of its type
MessageToAny(msg) ==
    [TypeUrl |-> IF "StatPrefix" \in DOMAIN msg
                    THEN "type.googleapis.com/envoy.config.filter.network.rbac.v2.RBAC"
                    ELSE "type.googleapis.com/envoy.config.filter.http.rbac.v2.RBAC",
     Value |-> msg]

----------------------------------------------------------------------------
\* fmt.Sprintf("ns[%s]-policy[%s]-rule[%d]", ...)

Digits == <<"0", "1", "2", "3", "4", "5", "6", "7", "8", "9">>

RECURSIVE FormatInt(_)
FormatInt(n) ==
    IF n < 10 THEN <<Digits[n + 1]>> ELSE FormatInt(n \div 10) \o <<Digits[(n % 10) + 1]>>

\* Faulty variant of Sprintf: the rule index is left out of the name.
SprintfNoIndex(namespace, name, i) ==
    <<"n", "s", "[">> \o namespace
        \o <<"]", "-", "p", "o", "l", "i", "c", "y", "[">> \o name \o <<"]">>

Sprintf(namespace, name, i) ==
    <<"n", "s", "[">> \o namespace
        \o <<"]", "-", "p", "o", "l", "i", "c", "y", "[">> \o name
        \o <<"]", "-", "r", "u", "l", "e", "[">> \o FormatInt(i) \o <<"]">>

\* Faulty variant of RuleName: the index counts from one.
RuleNameOneBased(policy, i) == Sprintf(policy.Namespace, policy.Name, i + 1)

\* the name of rule i (zero-based) of a policy
RuleName(policy, i) == Sprintf(policy.Namespace, policy.Name, i)

----------------------------------------------------------------------------
\* Maps and slices.

EmptyMap == [k \in {} |-> Nil]

\* m[k] = v
MapPut(m, k, v) == [x \in (DOMAIN m) \cup {k} |-> IF x = k THEN v ELSE m[x]]

\* Faulty variant of NewRules: the action is never set to DENY.
NewRulesAllow(forDeny) ==
    [Action |-> "ALLOW", Policies |-> EmptyMap]

\* the RBAC rules build starts from
NewRules(forDeny) ==
    [Action |-> IF forDeny THEN "DENY" ELSE "ALLOW", Policies |-> EmptyMap]

\* rules.Policies[name] = generated, when generated is not nil
Insert(rules, name, generated) ==
    IF generated # Nil
        THEN [rules EXCEPT !.Policies = MapPut(@, name, generated)]
        ELSE rules

\* Faulty variant of Append2: the filter is put in front.
Prepend2(filters, f) == <<f>> \o filters

\* filters = append(filters, f)
Append2(filters, f) == filters \o <<f>>

createHTTPFilter(config) ==
    IF config = Nil
        THEN Nil
        ELSE [Name |-> RBACHTTPFilterName, TypedConfig |-> MessageToAny(config)]

createTCPFilter(config) ==
    IF config = Nil
        THEN Nil
        ELSE LET rbacConfig == [Rules |-> config.Rules, StatPrefix |-> RBACTCPFilterStatPrefix]
             IN  [Name |-> RBACTCPFilterName, TypedConfig |-> MessageToAny(rbacConfig)]

createFilter(forTCP, config) ==
    IF forTCP THEN createTCPFilter(config) ELSE createHTTPFilter(config)

\* the RBAC rules a filter carries
RulesIn(filter) == filter.TypedConfig.Value.Rules

----------------------------------------------------------------------------
\* build, BuildHTTP and BuildTCP as functions of their arguments: what one
\* call returns when it runs alone.

\* one iteration of the loop over a policy's rules (builder.go:106-125)
buildRule(rules, policy, i, tdBundle, forTCP, forDeny) ==
    LET name == RuleName(policy, i)
        rule == policy.Rules[i + 1]
    IN  IF rule = Nil
            THEN rules
            ELSE LET c == authzmodelNew(rule)
                 IN  IF c.err # Nil
                        THEN rules
                        ELSE LET m == MigrateTrustDomain(c.m, tdBundle)
                                 g == Generate(m, forTCP, forDeny)
                             IN  IF g.err # Nil THEN rules ELSE Insert(rules, name, g.generated)

RECURSIVE buildPolicy(_, _, _, _, _, _)
buildPolicy(rules, policy, i, tdBundle, forTCP, forDeny) ==
    IF i >= Len(policy.Rules)
        THEN rules
        ELSE buildPolicy(buildRule(rules, policy, i, tdBundle, forTCP, forDeny),
                         policy, i + 1, tdBundle, forTCP, forDeny)

RECURSIVE buildPolicies(_, _, _, _, _, _)
buildPolicies(rules, policies, p, tdBundle, forTCP, forDeny) ==
    IF p > Len(policies)
        THEN rules
        ELSE buildPolicies(buildPolicy(rules, policies[p], 0, tdBundle, forTCP, forDeny),
                           policies, p + 1, tdBundle, forTCP, forDeny)

build(policies, tdBundle, forTCP, forDeny) ==
    IF Len(policies) = 0
        THEN Nil
        ELSE [Rules |-> buildPolicies(NewRules(forDeny), policies, 1, tdBundle, forTCP, forDeny)]

BuildFilters(b, forTCP) ==
    LET denyConfig == build(b.denyPolicies, b.trustDomainBundle, forTCP, TRUE)
        allowConfig == build(b.allowPolicies, b.trustDomainBundle, forTCP, FALSE)
        afterDeny == IF denyConfig # Nil THEN Append2(<<>>, createFilter(forTCP, denyConfig)) ELSE <<>>
    IN  IF allowConfig # Nil THEN Append2(afterDeny, createFilter(forTCP, allowConfig)) ELSE afterDeny

BuildHTTP(b) == BuildFilters(b, FALSE)

BuildTCP(b) == BuildFilters(b, TRUE)

\* Faulty variant of New: nil as soon as one of the lists is empty.
NewEither(trustDomainBundle, denyPolicies, allowPolicies) ==
    IF Len(denyPolicies) = 0 \/ Len(allowPolicies) = 0
        THEN Nil
        ELSE [trustDomainBundle |-> trustDomainBundle,
              denyPolicies |-> denyPolicies,
              allowPolicies |-> allowPolicies]

\* New, given what ListAuthorizationPolicies returned
New(trustDomainBundle, denyPolicies, allowPolicies) ==
    IF Len(denyPolicies) = 0 /\ Len(allowPolicies) = 0
        THEN Nil
        ELSE [trustDomainBundle |-> trustDomainBundle,
              denyPolicies |-> denyPolicies,
              allowPolicies |-> allowPolicies]

----------------------------------------------------------------------------
\* The calls, statement by statement.  frame[t] holds the locals of caller
\* t: b is the receiver's copy of the Builder, policies/tdBundle/forTCP/
\* forDeny are build's arguments, rules/p/i/m its locals (p counts policies
\* from 1, i rules from 0 as in the source), config its result, filters the
\* slice of BuildHTTP/BuildTCP.  trace lists the calls build has made to the
\* authz model in its current run.

IdleFrame ==
    [pc |-> "idle", direct |-> FALSE, b |-> Nil, forTCP |-> FALSE, forDeny |-> FALSE,
     policies |-> <<>>, tdBundle |-> "", rules |-> Nil, p |-> 0, i |-> 0, m |-> Nil,
     config |-> Nil, filters |-> <<>>, trace |-> <<>>]

Untouched == UNCHANGED <<selDeny, selAllow, selBundle, inPolicies, inBundle>>

\* New (builder.go:47-58)
NewBuilder ==
    /\ builder = Pending
    /\ builder' = New(selBundle, selDeny, selAllow)
    /\ UNCHANGED <<frame, ret, out>>
    /\ Untouched

\* BuildHTTP (tcp = FALSE) or BuildTCP (tcp = TRUE) is called on the Builder:
\* var filters, and the arguments of the first call of build (builder.go:62-65, 78-81)
Call(t, tcp) ==
    /\ builder # Pending
    /\ builder # Nil
    /\ frame[t].pc = "idle"
    /\ frame' = [frame EXCEPT ![t] =
                    [IdleFrame EXCEPT !.pc = "call", !.b = builder, !.forTCP = tcp,
                                      !.forDeny = TRUE,
                                      !.policies = builder.denyPolicies,
                                      !.tdBundle = builder.trustDomainBundle]]
    /\ UNCHANGED <<builder, ret, out>>
    /\ Untouched

\* Faulty variant of BuildEnter: the Policies map is allocated once per
\* caller and used again by its later runs, with what the last returned
\* filter left in it.
BuildEnterReuse(t) ==
    LET f == frame[t]
        kept == IF ret[t] # Nil /\ Len(ret[t].filters) > 0
                   THEN RulesIn(ret[t].filters[Len(ret[t].filters)]).Policies
                   ELSE EmptyMap
    IN  /\ f.pc = "call"
        /\ frame' = [frame EXCEPT ![t] =
                        IF Len(f.policies) = 0
                            THEN [f EXCEPT !.pc = "built", !.config = Nil]
                            ELSE [f EXCEPT !.pc = "loop",
                                           !.rules = [NewRules(f.forDeny) EXCEPT !.Policies = kept],
                                           !.p = 1, !.i = 0, !.trace = <<>>]]
        /\ UNCHANGED <<builder, ret, out>>
        /\ Untouched

\* build is entered: the empty list returns nil, any other list allocates
\* the rules (builder.go:93-104)
BuildEnter(t) ==
    LET f == frame[t]
    IN  /\ f.pc = "call"
        /\ frame' = [frame EXCEPT ![t] =
                        IF Len(f.policies) = 0
                            THEN [f EXCEPT !.pc = "built", !.config = Nil]
                            ELSE [f EXCEPT !.pc = "loop", !.rules = NewRules(f.forDeny),
                                           !.p = 1, !.i = 0, !.trace = <<>>]]
        /\ UNCHANGED <<builder, ret, out>>
        /\ Untouched

\* the rules of policy p are exhausted: the next policy (builder.go:104-105)
NextPolicy(t) ==
    LET f == frame[t]
    IN  /\ f.pc = "loop"
        /\ f.p <= Len(f.policies)
        /\ f.i >= Len(f.policies[f.p].Rules)
        /\ frame' = [frame EXCEPT ![t] = [f EXCEPT !.p = f.p + 1, !.i = 0]]
        /\ UNCHANGED <<builder, ret, out>>
        /\ Untouched

\* rule i of policy p: its name, the nil check and authzmodel.New (builder.go:106-115)
RuleStep(t) ==
    LET f == frame[t]
    IN  /\ f.pc = "loop"
        /\ f.p <= Len(f.policies)
        /\ f.i < Len(f.policies[f.p].Rules)
        /\ LET rule == f.policies[f.p].Rules[f.i + 1]
               visited == Append(f.trace, <<"visit", f.p, f.i>>)
           IN  frame' = [frame EXCEPT ![t] =
                    IF rule = Nil
                        THEN [f EXCEPT !.i = f.i + 1, !.trace = visited]
                        ELSE LET c == authzmodelNew(rule)
                                 called == Append(visited, <<"new", f.p, f.i>>)
                             IN  IF c.err # Nil
                                    THEN [f EXCEPT !.i = f.i + 1, !.trace = called]
                                    ELSE [f EXCEPT !.pc = "migrate", !.m = c.m, !.trace = called]]
        /\ UNCHANGED <<builder, ret, out>>
        /\ Untouched

\* m.MigrateTrustDomain(tdBundle) (builder.go:116)
Migrate(t) ==
    LET f == frame[t]
    IN  /\ f.pc = "migrate"
        /\ frame' = [frame EXCEPT ![t] =
                        [f EXCEPT !.pc = "generate",
                                  !.m = MigrateTrustDomain(f.m, f.tdBundle),
                                  !.trace = Append(f.trace, <<"migrate", f.p, f.i>>)]]
        /\ UNCHANGED <<builder, ret, out>>
        /\ Untouched

\* Faulty variant of GenerateStep: the Policies map is shared by the callers,
\* so an insertion lands in the map of every run in progress.
GenerateStepShared(t) ==
    LET f == frame[t]
        g == Generate(f.m, f.forTCP, f.forDeny)
        name == RuleName(f.policies[f.p], f.i)
        called == Append(f.trace, <<"generate", f.p, f.i, f.forTCP, f.forDeny>>)
    IN  /\ f.pc = "generate"
        /\ frame' = [u \in Callers |->
                        IF u = t
                            THEN IF g.err # Nil
                                    THEN [f EXCEPT !.pc = "loop", !.i = f.i + 1, !.m = Nil,
                                                   !.trace = called]
                                    ELSE [f EXCEPT !.pc = "loop", !.i = f.i + 1, !.m = Nil,
                                                   !.trace = called,
                                                   !.rules = Insert(f.rules, name, g.generated)]
                            ELSE IF g.err = Nil /\ frame[u].rules # Nil
                                    THEN [frame[u] EXCEPT !.rules = Insert(@, name, g.generated)]
                                    ELSE frame[u]]
        /\ UNCHANGED <<builder, ret, out>>
        /\ Untouched

\* Faulty variant of GenerateStep: a failed generation is tried again.
GenerateStepRetry(t) ==
    LET f == frame[t]
        g == Generate(f.m, f.forTCP, f.forDeny)
        name == RuleName(f.policies[f.p], f.i)
        called == Append(f.trace, <<"generate", f.p, f.i, f.forTCP, f.forDeny>>)
    IN  /\ f.pc = "generate"
        /\ frame' = [frame EXCEPT ![t] =
                        IF g.err # Nil
                            THEN [f EXCEPT !.trace = called]
                            ELSE [f EXCEPT !.pc = "loop", !.i = f.i + 1, !.m = Nil, !.trace = called,
                                           !.rules = Insert(f.rules, name, g.generated)]]
        /\ UNCHANGED <<builder, ret, out>>
        /\ Untouched

\* m.Generate(forTCP, forDeny) and the insertion of its result (builder.go:117-125)
GenerateStep(t) ==
    LET f == frame[t]
        g == Generate(f.m, f.forTCP, f.forDeny)
        name == RuleName(f.policies[f.p], f.i)
        called == Append(f.trace, <<"generate", f.p, f.i, f.forTCP, f.forDeny>>)
    IN  /\ f.pc = "generate"
        /\ frame' = [frame EXCEPT ![t] =
                        IF g.err # Nil
                            THEN [f EXCEPT !.pc = "loop", !.i = f.i + 1, !.m = Nil, !.trace = called]
                            ELSE [f EXCEPT !.pc = "loop", !.i = f.i + 1, !.m = Nil, !.trace = called,
                                           !.rules = Insert(f.rules, name, g.generated)]]
        /\ UNCHANGED <<builder, ret, out>>
        /\ Untouched

\* Faulty variant of BuildReturn: rules without policies are returned as nil.
BuildReturnNilWhenEmpty(t) ==
    LET f == frame[t]
    IN  /\ f.pc = "loop"
        /\ f.p > Len(f.policies)
        /\ frame' = [frame EXCEPT ![t] =
                        [f EXCEPT !.pc = "built",
                                  !.config = IF DOMAIN f.rules.Policies = {}
                                                THEN Nil
                                                ELSE [Rules |-> f.rules]]]
        /\ UNCHANGED <<builder, ret, out>>
        /\ Untouched

\* the policies are exhausted: build returns the rules (builder.go:129)
BuildReturn(t) ==
    LET f == frame[t]
    IN  /\ f.pc = "loop"
        /\ f.p > Len(f.policies)
        /\ frame' = [frame EXCEPT ![t] = [f EXCEPT !.pc = "built", !.config = [Rules |-> f.rules]]]
        /\ UNCHANGED <<builder, ret, out>>
        /\ Untouched

\* Faulty variant of AppendFilter: a config without policies makes no filter.
AppendFilterSkipEmpty(t) ==
    LET f == frame[t]
        filters == IF f.config # Nil /\ DOMAIN f.config.Rules.Policies # {}
                      THEN Append2(f.filters, createFilter(f.forTCP, f.config))
                      ELSE f.filters
    IN  /\ f.pc = "built"
        /\ ~f.direct
        /\ frame' = [frame EXCEPT ![t] =
                        IF f.forDeny
                            THEN [f EXCEPT !.pc = "call", !.filters = filters, !.forDeny = FALSE,
                                           !.policies = f.b.allowPolicies,
                                           !.tdBundle = f.b.trustDomainBundle,
                                           !.rules = Nil, !.config = Nil, !.p = 0, !.i = 0,
                                           !.trace = <<>>]
                            ELSE [f EXCEPT !.pc = "return", !.filters = filters]]
        /\ UNCHANGED <<builder, ret, out>>
        /\ Untouched

\* back in BuildHTTP/BuildTCP: a non-nil config is appended as a filter; after
\* the deny list comes the allow list, after the allow list the return
\* (builder.go:65-71, 81-87)
AppendFilter(t) ==
    LET f == frame[t]
        filters == IF f.config # Nil
                      THEN Append2(f.filters, createFilter(f.forTCP, f.config))
                      ELSE f.filters
    IN  /\ f.pc = "built"
        /\ ~f.direct
        /\ frame' = [frame EXCEPT ![t] =
                        IF f.forDeny
                            THEN [f EXCEPT !.pc = "call", !.filters = filters, !.forDeny = FALSE,
                                           !.policies = f.b.allowPolicies,
                                           !.tdBundle = f.b.trustDomainBundle,
                                           !.rules = Nil, !.config = Nil, !.p = 0, !.i = 0,
                                           !.trace = <<>>]
                            ELSE [f EXCEPT !.pc = "return", !.filters = filters]]
        /\ UNCHANGED <<builder, ret, out>>
        /\ Untouched

\* return filters (builder.go:73, 89)
Return(t) ==
    LET f == frame[t]
    IN  /\ f.pc = "return"
        /\ ret' = [ret EXCEPT ![t] = [forTCP |-> f.forTCP, filters |-> f.filters]]
        /\ frame' = [frame EXCEPT ![t] = IdleFrame]
        /\ UNCHANGED <<builder, out>>
        /\ Untouched

\* build is called on its own, with any flags (builder.go:92)
BuildDirect(tcp, deny) ==
    /\ out = Pending
    /\ frame[1].pc = "idle"
    /\ frame' = [frame EXCEPT ![1] =
                    [IdleFrame EXCEPT !.pc = "call", !.direct = TRUE, !.forTCP = tcp,
                                      !.forDeny = deny, !.policies = inPolicies,
                                      !.tdBundle = inBundle]]
    /\ UNCHANGED <<builder, ret, out>>
    /\ Untouched

\* the result of the direct call is handed to createHTTPFilter or
\* createTCPFilter (builder.go:133-155)
Assemble ==
    LET f == frame[1]
    IN  /\ f.pc = "built"
        /\ f.direct
        /\ out' = [forTCP |-> f.forTCP, forDeny |-> f.forDeny, config |-> f.config,
                   trace |-> f.trace, filter |-> createFilter(f.forTCP, f.config)]
        /\ frame' = [frame EXCEPT ![1] = IdleFrame]
        /\ UNCHANGED <<builder, ret>>
        /\ Untouched

----------------------------------------------------------------------------
\* Spec: one Builder made by New and shared by two callers, each of which
\* calls BuildHTTP and BuildTCP any number of times.

Init ==
    /\ selDeny \in SelectedLists
    /\ selAllow \in SelectedLists
    /\ selBundle \in SelBundles
    /\ builder = Pending
    /\ inPolicies = <<>>
    /\ inBundle = ""
    /\ frame = [t \in Callers |-> IdleFrame]
    /\ ret = [t \in Callers |-> Nil]
    /\ out = Pending

Next ==
    \/ NewBuilder
    \/ \E t \in Callers, tcp \in BOOLEAN : Call(t, tcp)
    \/ \E t \in Callers : BuildEnter(t)
    \/ \E t \in Callers : NextPolicy(t)
    \/ \E t \in Callers : RuleStep(t)
    \/ \E t \in Callers : Migrate(t)
    \/ \E t \in Callers : GenerateStep(t)
    \/ \E t \in Callers : BuildReturn(t)
    \/ \E t \in Callers : AppendFilter(t)
    \/ \E t \in Callers : Return(t)

Spec == Init /\ [][Next]_vars

\* SpecBuild: one call of build on any policy list and any flags, and the
\* filter made from its result.

InitBuild ==
    /\ selDeny = <<>>
    /\ selAllow = <<>>
    /\ selBundle = ""
    /\ builder = Nil
    /\ inPolicies \in PolicyLists(Namespaces, Names, Rules, MaxPolicies, MaxRules)
    /\ inBundle \in Bundles
    /\ frame = [t \in Callers |-> IdleFrame]
    /\ ret = [t \in Callers |-> Nil]
    /\ out = Pending

NextBuild ==
    \/ \E tcp \in BOOLEAN, deny \in BOOLEAN : BuildDirect(tcp, deny)
    \/ BuildEnter(1)
    \/ NextPolicy(1)
    \/ RuleStep(1)
    \/ Migrate(1)
    \/ GenerateStep(1)
    \/ BuildReturn(1)
    \/ Assemble

SpecBuild == InitBuild /\ [][NextBuild]_vars

\* a goroutine that runs build keeps running until build returns
FairSpecBuild == SpecBuild /\ WF_vars(NextBuild)

----------------------------------------------------------------------------
\* Vocabulary of the properties.

\* caller t is inside a run of build
InRun(t) == frame[t].pc \in {"loop", "migrate", "generate"}

\* build has just returned to caller t
Built(t) == frame[t].pc = "built"

\* the (policy position, zero-based rule index) pairs of a policy list
RulePairs(ps) == UNION {{<<p, i>> : i \in 0..(Len(ps[p].Rules) - 1)} : p \in DOMAIN ps}

RuleAt(ps, x) == ps[x[1]].Rules[x[2] + 1]

\* the composite key of a pair, written out from the format string
KeyOf(ps, x) == Sprintf(ps[x[1]].Namespace, ps[x[1]].Name, x[2])

\* the rule is not nil, its model is constructed, and generation succeeds with a non-nil result
Contributes(rule, td, tcp, deny) ==
    /\ rule # Nil
    /\ authzmodelNew(rule).err = Nil
    /\ Generate(MigrateTrustDomain(authzmodelNew(rule).m, td), tcp, deny).err = Nil
    /\ Generate(MigrateTrustDomain(authzmodelNew(rule).m, td), tcp, deny).generated # Nil

GeneratedOf(rule, td, tcp, deny) ==
    Generate(MigrateTrustDomain(authzmodelNew(rule).m, td), tcp, deny).generated

Contributing(ps, td, tcp, deny) ==
    {x \in RulePairs(ps) : Contributes(RuleAt(ps, x), td, tcp, deny)}

\* x is processed before y
Before(x, y) == x[1] < y[1] \/ (x[1] = y[1] /\ x[2] < y[2])

HasChar(str, c) == \E k \in DOMAIN str : str[k] = c

NoBracketNamespaces(ps) == \A p \in DOMAIN ps : ~HasChar(ps[p].Namespace, "]")

IsPrefix(s, t) == Len(s) <= Len(t) /\ SubSeq(t, 1, Len(s)) = s

\* the calls build makes for one rule, in order
ExpectedRule(ps, x, tcp, deny) ==
    LET rule == RuleAt(ps, x)
    IN  <<<<"visit", x[1], x[2]>>>> \o
        (IF rule = Nil
            THEN <<>>
            ELSE <<<<"new", x[1], x[2]>>>> \o
                 (IF authzmodelNew(rule).err # Nil
                     THEN <<>>
                     ELSE <<<<"migrate", x[1], x[2]>>, <<"generate", x[1], x[2], tcp, deny>>>>))

\* the calls build makes from rule i of policy p on
RECURSIVE ExpectedFrom(_, _, _, _, _)
ExpectedFrom(ps, p, i, tcp, deny) ==
    IF p > Len(ps)
        THEN <<>>
        ELSE IF i >= Len(ps[p].Rules)
            THEN ExpectedFrom(ps, p + 1, 0, tcp, deny)
            ELSE ExpectedRule(ps, <<p, i>>, tcp, deny) \o ExpectedFrom(ps, p, i + 1, tcp, deny)

Count(b) == IF b THEN 1 ELSE 0

----------------------------------------------------------------------------
\* Properties of build (SpecBuild).

\* C2: build returns nil if and only if the policy list is empty; a
\* non-empty list yields a present result, whose Policies map is empty when
\* no rule of the list contributes (nil rule, failed construction, failed
\* generation, nil generation result, or no rules at all).
C2_AbsentIffEmpty ==
    \A t \in Callers :
        Built(t) =>
            LET f == frame[t]
            IN  /\ (f.config = Nil) <=> (Len(f.policies) = 0)
                /\ (Len(f.policies) > 0
                    /\ Contributing(f.policies, f.tdBundle, f.forTCP, f.forDeny) = {})
                   => (f.config # Nil /\ DOMAIN f.config.Rules.Policies = {})

\* a run over two policies, with a nil rule, a rule that fails construction and
\* a rule that fails generation among them, has returned a present, empty result
C2_Witness ==
    /\ Built(1)
    /\ Len(frame[1].policies) = 2
    /\ frame[1].config # Nil
    /\ DOMAIN frame[1].config.Rules.Policies = {}
    /\ \E x, y, z \in RulePairs(frame[1].policies) :
            /\ RuleAt(frame[1].policies, x) = Nil
            /\ RuleAt(frame[1].policies, y) = [kind |-> "bad"]
            /\ RuleAt(frame[1].policies, z) = [kind |-> "err"]

C9_StepOrder ==
    /\ [](\A t \in Callers :
            LET f == frame[t]
                expected == ExpectedFrom(f.policies, 1, 0, f.forTCP, f.forDeny)
            IN  /\ InRun(t) => IsPrefix(f.trace, expected)
                /\ (Built(t) /\ Len(f.policies) > 0) => f.trace = expected)
    /\ (frame[1].pc = "call") ~> (frame[1].pc = "built")

\* a run has ended after four rules: one nil, one whose construction fails,
\* one whose generation fails and one that generates a policy
C9_Witness ==
    /\ Built(1)
    /\ Len(frame[1].policies) = 2
    /\ frame[1].policies[1].Rules = <<Nil, [kind |-> "bad"]>>
    /\ frame[1].policies[2].Rules = <<[kind |-> "err"], [kind |-> "ok"]>>
    /\ Len(frame[1].trace) = 1 + 2 + 4 + 4

----------------------------------------------------------------------------
\* Properties of the Builder (Spec).

\* C1: BuildHTTP and BuildTCP return as many filters as there are non-nil
\* results among build(denyPolicies, forDeny = true) and build(allowPolicies,
\* forDeny = false); when both are non-nil, the filter made from the deny
\* list is first and the filter made from the allow list second.
C1_DenyBeforeAllow ==
    \A t \in Callers :
        ret[t] # Nil =>
            LET tcp == ret[t].forTCP
                denyConfig == build(builder.denyPolicies, builder.trustDomainBundle, tcp, TRUE)
                allowConfig == build(builder.allowPolicies, builder.trustDomainBundle, tcp, FALSE)
            IN  /\ Len(ret[t].filters) = Count(denyConfig # Nil) + Count(allowConfig # Nil)
                /\ (denyConfig # Nil /\ allowConfig # Nil)
                   => /\ ret[t].filters[1] = createFilter(tcp, denyConfig)
                      /\ ret[t].filters[2] = createFilter(tcp, allowConfig)
                      /\ ret[t].filters[1] # ret[t].filters[2]

\* BuildHTTP has returned two filters whose rules both hold a generated policy
C1_Witness ==
    /\ ret[1] # Nil
    /\ ~ret[1].forTCP
    /\ Len(ret[1].filters) = 2
    /\ DOMAIN RulesIn(ret[1].filters[1]).Policies # {}
    /\ DOMAIN RulesIn(ret[1].filters[2]).Policies # {}

\* C3: New returns nil exactly when the selected deny list and the selected
\* allow list are both empty; otherwise the Builder holds the deny list, the
\* allow list and the bundle New was given, and keeps holding them.
C3_NewAbsentIffBothEmpty ==
    builder # Pending =>
        /\ (builder = Nil) <=> (Len(selDeny) = 0 /\ Len(selAllow) = 0)
        /\ builder # Nil =>
            /\ builder.denyPolicies = selDeny
            /\ builder.allowPolicies = selAllow
            /\ builder.trustDomainBundle = selBundle

\* New has returned a Builder for an empty deny list and a non-empty allow
\* list, and the Builder has been used
C3_Witness ==
    /\ builder # Pending
    /\ builder # Nil
    /\ Len(selDeny) = 0
    /\ Len(selAllow) > 0
    /\ ret[1] # Nil

\* C6: a call of build with the inputs of an earlier call returns what the
\* earlier call returned: every BuildHTTP (BuildTCP) call that returns hands
\* back the filters, hence the rules with their action, keys and generated
\* policies, that any earlier BuildHTTP (BuildTCP) call on the Builder
\* handed back, and two runs of build that stand at their return with the
\* same arguments hold the same result.
C6_Idempotent ==
    [][ /\ \A t, u \in Callers :
                (ret'[t] # Nil /\ ret[u] # Nil /\ ret'[t].forTCP = ret[u].forTCP)
                    => ret'[t].filters = ret[u].filters
        /\ \A t, u \in Callers :
                (frame'[t].pc = "built" /\ frame'[u].pc = "built"
                 /\ frame'[t].policies = frame'[u].policies
                 /\ frame'[t].tdBundle = frame'[u].tdBundle
                 /\ frame'[t].forTCP = frame'[u].forTCP
                 /\ frame'[t].forDeny = frame'[u].forDeny)
                    => frame'[t].config = frame'[u].config ]_vars

\* caller 1 has completed a BuildHTTP call with two filters and stands at
\* the return of a further one, while caller 2 has completed one as well
C6_Witness ==
    /\ ret[1] # Nil
    /\ ~ret[1].forTCP
    /\ Len(ret[1].filters) = 2
    /\ DOMAIN RulesIn(ret[1].filters[1]).Policies # {}
    /\ frame[1].pc = "return"
    /\ ~frame[1].forTCP
    /\ ret[2] # Nil
    /\ ~ret[2].forTCP

\* C7: no step of a BuildHTTP or BuildTCP call changes the Builder; every
\* step changes the locals of one caller only; and every call, however it is
\* interleaved with the other caller's, returns what it returns when run alone.
C7_Immutable ==
    [][ /\ builder # Pending => builder' = builder
        /\ \A t \in Callers : frame'[t].b # Nil => frame'[t].b = builder'
        /\ \A t, u \in Callers : (t # u /\ frame'[t] # frame[t]) => frame'[u] = frame[u]
        /\ \A t \in Callers :
                ret'[t] # Nil =>
                    ret'[t].filters = (IF ret'[t].forTCP THEN BuildTCP(builder')
                                                         ELSE BuildHTTP(builder')) ]_vars

\* a BuildHTTP call and a BuildTCP call are both about to insert a generated
\* policy, and caller 1 has already completed a call with two filters
C7_Witness ==
    /\ frame[1].pc = "generate"
    /\ frame[2].pc = "generate"
    /\ frame[1].forTCP # frame[2].forTCP
    /\ ret[1] # Nil
    /\ Len(ret[1].filters) = 2

\* C8: every result of build has action DENY when forDeny is true and ALLOW
\* when it is false; in what BuildHTTP and BuildTCP return, the filter made
\* from the deny list carries DENY and the one made from the allow list
\* ALLOW; the filter carries the rules of build unchanged, and the TCP
\* filter adds only the stats prefix.
C8_ActionPolarity ==
    /\ \A t \in Callers :
            (Built(t) /\ frame[t].config # Nil)
                => frame[t].config.Rules.Action = (IF frame[t].forDeny THEN "DENY" ELSE "ALLOW")
    /\ \A t \in Callers :
            ret[t] # Nil =>
                LET fs == ret[t].filters
                    tcp == ret[t].forTCP
                    hasDeny == Len(builder.denyPolicies) > 0
                    hasAllow == Len(builder.allowPolicies) > 0
                    denyRules == build(builder.denyPolicies, builder.trustDomainBundle, tcp, TRUE).Rules
                    allowRules == build(builder.allowPolicies, builder.trustDomainBundle, tcp, FALSE).Rules
                    allowAt == IF hasDeny THEN 2 ELSE 1
                IN  /\ hasDeny => /\ RulesIn(fs[1]).Action = "DENY"
                                  /\ RulesIn(fs[1]) = denyRules
                    /\ hasAllow => /\ RulesIn(fs[allowAt]).Action = "ALLOW"
                                   /\ RulesIn(fs[allowAt]) = allowRules
                    /\ \A k \in DOMAIN fs :
                            /\ fs[k].Name = (IF tcp THEN RBACTCPFilterName ELSE RBACHTTPFilterName)
                            /\ DOMAIN fs[k].TypedConfig.Value
                                    = (IF tcp THEN {"Rules", "StatPrefix"} ELSE {"Rules"})
                            /\ tcp => fs[k].TypedConfig.Value.StatPrefix = RBACTCPFilterStatPrefix

\* BuildTCP has returned a DENY filter and an ALLOW filter, the first with a
\* generated policy
C8_Witness ==
    /\ ret[2] # Nil
    /\ ret[2].forTCP
    /\ Len(ret[2].filters) = 2
    /\ RulesIn(ret[2].filters[1]).Action = "DENY"
    /\ RulesIn(ret[2].filters[2]).Action = "ALLOW"
    /\ DOMAIN RulesIn(ret[2].filters[1]).Policies # {}

\* C10: on a Builder that New returned, BuildHTTP and BuildTCP each return
\* one or two filters, as many as there are non-empty lists among the deny
\* and the allow list, whatever the rules generate; so both return the same
\* number.
C10_FilterCount ==
    /\ \A t \in Callers :
            ret[t] # Nil =>
                /\ Len(ret[t].filters) \in {1, 2}
                /\ Len(ret[t].filters) = Count(Len(selDeny) > 0) + Count(Len(selAllow) > 0)
    /\ \A t, u \in Callers :
            (ret[t] # Nil /\ ret[u] # Nil) => Len(ret[t].filters) = Len(ret[u].filters)

\* BuildHTTP and BuildTCP have both returned, for a deny list whose only rule
\* generates a policy for HTTP and none for TCP, and an empty allow list
C10_Witness ==
    /\ ret[1] # Nil
    /\ ret[2] # Nil
    /\ ~ret[1].forTCP
    /\ ret[2].forTCP
    /\ Len(selAllow) = 0
    /\ Len(selDeny) = 1
    /\ selDeny[1].Rules = <<[kind |-> "http"]>>
    /\ Len(ret[2].filters) = 1
    /\ DOMAIN RulesIn(ret[1].filters[1]).Policies # {}
    /\ DOMAIN RulesIn(ret[2].filters[1]).Policies = {}

====
